---- MODULE Spec2Model ----
(***************************************************************************)
(* A model of the software rasterizer of src/src/lib.rs: Vec2, Vec3, Tri2  *)
(* and Scene (new, render, display_tex_sdl3, the display_sdl3 key loop).   *)
(*                                                                         *)
(* Numbers.  Every f64 of the program is a fixed-point number here: the    *)
(* integer v stands for v / Den.  Products of two coordinates are only     *)
(* compared with 0, so their scale does not matter.  `as usize` and        *)
(* `as u8` are the saturating, truncating casts of Rust.                   *)
(*                                                                         *)
(* Scale.  The buffer side (600 in the source), the projection factor      *)
(* (512.0) and the number of generated triangles (20) are scaled down to   *)
(* N, Projection and NumTris; Projection < N as in the source.             *)
(***************************************************************************)
EXTENDS Integers, Sequences, FiniteSets

VARIABLES
    output,     \* Scene.output: the pixel buffer, output[row][col]
    triangles,  \* Scene.triangles
    panicked,   \* a slice index of render() was out of range: the thread unwinds
    texture,    \* the bytes last handed to texture.update (<<>>: none yet)
    op,         \* the operation that produced this state
    renders,    \* render() calls completed on this scene (saturates at MaxRenders)
    probe       \* the last call of a pure function of Tri2, and what it returned

vars == <<output, triangles, panicked, texture, op, renders, probe>>

----------------------------------------------------------------------------
(* Bounds *)

\* Side of the square buffer (600 in the source).
N == 4
\* The projection factor of Scene::new (512.0 in the source).
Projection == 3
\* Triangles Scene::new generates (20 in the source).
NumTris == 2
\* Denominator of the fixed-point numbers.
Den == 4
\* The render counter saturates here.
MaxRenders == 2
\* Vertices and probe points of the pure-function checks lie on 0..Grid.
Grid == 4

----------------------------------------------------------------------------
(* Vec2 *)

Vec2(vx, vy) == [x |-> vx, y |-> vy]

Vec2Sub(a, b) == Vec2(a.x - b.x, a.y - b.y)

Vec2MulScalar(v, k) == Vec2(v.x * k, v.y * k)

dot(a, b) == a.x * b.x + a.y * b.y

clockwise90(v) == Vec2(v.y, 0 - v.x)

point_on_right_line(a, b, p) ==
    LET ap == Vec2Sub(p, a)
        ab_perp == clockwise90(Vec2Sub(b, a))
    IN  dot(ap, ab_perp) >= 0

(* Vec3, also a colour *)

Vec3(vx, vy, vz) == [x |-> vx, y |-> vy, z |-> vz]

Black == Vec3(0, 0, 0)

\* (channel * 256.0) as u8
ToByte(ch) ==
    LET v == (ch * 256) \div Den
    IN  IF ch <= 0 THEN 0 ELSE IF v > 255 THEN 255 ELSE v

----------------------------------------------------------------------------
(* Tri2 *)

Tri2(p0, p1, p2, c) == [points |-> <<p0, p1, p2>>, color |-> c]

Tri2MulScalar(t, k) ==
    [points |-> <<Vec2MulScalar(t.points[1], k),
                  Vec2MulScalar(t.points[2], k),
                  Vec2MulScalar(t.points[3], k)>>,
     color |-> t.color]

\* A plausible slip: the test demands one fixed winding.
insideFixedWinding(t, point) ==
    /\ point_on_right_line(t.points[1], t.points[2], point)
    /\ point_on_right_line(t.points[2], t.points[3], point)
    /\ point_on_right_line(t.points[3], t.points[1], point)

inside(t, point) ==
    LET side_ab == point_on_right_line(t.points[1], t.points[2], point)
        side_bc == point_on_right_line(t.points[2], t.points[3], point)
        side_ca == point_on_right_line(t.points[3], t.points[1], point)
    IN  side_ab = side_bc /\ side_bc = side_ca

f64min(a, b) == IF a <= b THEN a ELSE b

f64max(a, b) == IF a >= b THEN a ELSE b

\* A plausible slip: the bottom-right y is reduced with min.
bounding_boxMinY(t) ==
    LET xs == [i \in 1..3 |-> t.points[i].x]
        ys == [i \in 1..3 |-> t.points[i].y]
    IN  <<Vec2(f64min(f64min(xs[1], xs[2]), xs[3]),
               f64min(f64min(ys[1], ys[2]), ys[3])),
          Vec2(f64max(f64max(xs[1], xs[2]), xs[3]),
               f64min(f64min(ys[1], ys[2]), ys[3]))>>

\* <<top_left, bottom_right>>
bounding_box(t) ==
    LET xs == [i \in 1..3 |-> t.points[i].x]
        ys == [i \in 1..3 |-> t.points[i].y]
    IN  <<Vec2(f64min(f64min(xs[1], xs[2]), xs[3]),
               f64min(f64min(ys[1], ys[2]), ys[3])),
          Vec2(f64max(f64max(xs[1], xs[2]), xs[3]),
               f64max(f64max(ys[1], ys[2]), ys[3]))>>

----------------------------------------------------------------------------
(* Scene *)

Cells == 0..(N - 1)

DEFAULT_OUTPUT == [r \in Cells |-> [c \in Cells |-> Black]]

\* f64 as usize: truncates toward zero, negative values give 0
AsUsize(v) == IF v <= 0 THEN 0 ELSE v \div Den

\* usize as f64
AsF64(i) == i * Den

\* The row range of render(): output[top_left.x as usize..bottom_right.x as usize]
RowRange(t) ==
    LET bb == bounding_box(t)
    IN  <<AsUsize(bb[1].x), AsUsize(bb[2].x)>>

\* The column range of render(): row[top_left.y as usize..bottom_right.y as usize]
ColRange(t) ==
    LET bb == bounding_box(t)
    IN  <<AsUsize(bb[1].y), AsUsize(bb[2].y)>>

\* Indexing a slice of length len with start..end panics
SliceFaults(range, len) == range[1] > range[2] \/ range[2] > len

\* render() panics on t: the row slice is taken first, the column slice only
\* for a row of it
TriFaults(t) ==
    \/ SliceFaults(RowRange(t), N)
    \/ /\ RowRange(t)[1] < RowRange(t)[2]
       /\ SliceFaults(ColRange(t), N)

\* The fill loop for t, with its row slice rows and column slice cols, writes
\* output[r][c]: the cell is in the two slices and the triangle holds the
\* enumerate() indices of the cell, (x, y) = (index in the column slice,
\* index in the row slice)
CoveredIn(t, rows, cols, r, c) ==
    /\ r >= rows[1] /\ r < rows[2]
    /\ c >= cols[1] /\ c < cols[2]
    /\ inside(t, Vec2(AsF64(c - cols[1]), AsF64(r - rows[1])))

Covered(t, r, c) == CoveredIn(t, RowRange(t), ColRange(t), r, c)

\* A plausible slip: additive blending instead of the opaque overwrite.
PaintTriBlend(buf, t) ==
    LET rows == RowRange(t)
        cols == ColRange(t)
    IN  [r \in Cells |-> [c \in Cells |->
            IF CoveredIn(t, rows, cols, r, c)
            THEN Vec3(f64min(Den, buf[r][c].x + t.color.x),
                      f64min(Den, buf[r][c].y + t.color.y),
                      f64min(Den, buf[r][c].z + t.color.z))
            ELSE buf[r][c]]]

\* A plausible slip: a cell that is already painted is kept.
PaintTriKeepFirst(buf, t) ==
    LET rows == RowRange(t)
        cols == ColRange(t)
    IN  [r \in Cells |-> [c \in Cells |->
            IF CoveredIn(t, rows, cols, r, c) /\ buf[r][c] = Black
            THEN t.color ELSE buf[r][c]]]

\* The two inner loops of render() for one triangle
PaintTri(buf, t) ==
    LET rows == RowRange(t)
        cols == ColRange(t)
    IN  [r \in Cells |-> [c \in Cells |->
            IF CoveredIn(t, rows, cols, r, c) THEN t.color ELSE buf[r][c]]]

\* The outer loop of render() from the i-th triangle on: a panic leaves the
\* buffer as the triangles before it painted it
RECURSIVE RenderFrom(_, _, _)
RenderFrom(buf, tris, i) ==
    IF i > Len(tris) THEN [output |-> buf, panicked |-> FALSE]
    ELSE IF TriFaults(tris[i]) THEN [output |-> buf, panicked |-> TRUE]
    ELSE RenderFrom(PaintTri(buf, tris[i]), tris, i + 1)

render(buf, tris) == RenderFrom(buf, tris, 1)

\* The bytes display_tex_sdl3 hands to texture.update: row-major, r g b
display_tex(buf) ==
    [k \in 1..(3 * N * N) |->
        LET cell == (k - 1) \div 3
            val == buf[cell \div N][cell % N]
            ch == (k - 1) % 3
        IN  ToByte(IF ch = 0 THEN val.x ELSE IF ch = 1 THEN val.y ELSE val.z)]

\* Samples of rng.random::<f64>(), which lies in [0, 1): 0, one in the middle
\* and the greatest
UnitMid == Den \div 2
UnitMax == Den - 1

\* Samples of rng.random::<Tri2>(): a corner triangle in one winding (two
\* colours) and in the other, a triangle away from the origin, a degenerate one
RandomTri2 ==
    LET cw == <<Vec2(0, 0), Vec2(0, UnitMax), Vec2(UnitMax, 0)>>
        ccw == <<Vec2(0, 0), Vec2(UnitMax, 0), Vec2(0, UnitMax)>>
        off == <<Vec2(UnitMid, UnitMid), Vec2(UnitMid, UnitMax), Vec2(UnitMax, UnitMid)>>
        dot1 == <<Vec2(UnitMax, UnitMax), Vec2(UnitMax, UnitMax), Vec2(UnitMax, UnitMax)>>
        c1 == Vec3(UnitMid, 0, 0)
        c2 == Vec3(0, UnitMax, UnitMid)
    IN  { [points |-> cw, color |-> c1], [points |-> cw, color |-> c2],
          [points |-> ccw, color |-> c2], [points |-> off, color |-> c1],
          [points |-> dot1, color |-> c2] }

\* A plausible slip: the projection factor exceeds the buffer.
NewScenesOverscaled ==
    { [output |-> DEFAULT_OUTPUT, triangles |-> ts] :
        ts \in [1..NumTris -> { Tri2MulScalar(u, Projection + N) : u \in RandomTri2 }] }

\* The scenes Scene::new() can return
NewScenes ==
    { [output |-> DEFAULT_OUTPUT, triangles |-> ts] :
        ts \in [1..NumTris -> { Tri2MulScalar(u, Projection) : u \in RandomTri2 }] }

----------------------------------------------------------------------------
(* Operations *)

NoProbe == [fn |-> "none", point |-> Vec2(0, 0), inside |-> FALSE,
            box |-> <<Vec2(0, 0), Vec2(0, 0)>>]

Created == op \in {"new", "render"}

InLoop == op \in {"open", "key_r", "key_t"}

Bump(n) == IF n < MaxRenders THEN n + 1 ELSE n

\* scene.render(), called by the owner of the scene before display_sdl3
Render ==
    /\ Created /\ ~panicked
    /\ \E res \in {render(output, triangles)} :
           /\ output' = res.output
           /\ panicked' = res.panicked
           /\ renders' = IF res.panicked THEN renders ELSE Bump(renders)
    /\ op' = "render"
    /\ UNCHANGED <<triangles, texture, probe>>

\* display_sdl3 up to its event loop: the buffer is uploaded as it is
DisplayOpen ==
    /\ Created /\ ~panicked
    /\ texture' = display_tex(output)
    /\ op' = "open"
    /\ UNCHANGED <<output, triangles, panicked, renders, probe>>

\* Key R: render, then upload
KeyR ==
    /\ InLoop /\ ~panicked
    /\ \E res \in {render(output, triangles)} :
           /\ output' = res.output
           /\ panicked' = res.panicked
           /\ renders' = IF res.panicked THEN renders ELSE Bump(renders)
           /\ texture' = IF res.panicked THEN texture ELSE display_tex(res.output)
    /\ op' = "key_r"
    /\ UNCHANGED <<triangles, probe>>

\* Key T: replace the scene by a new one, render, then upload
KeyT ==
    /\ InLoop /\ ~panicked
    /\ \E s \in NewScenes : \E res \in {render(s.output, s.triangles)} :
           /\ triangles' = s.triangles
           /\ output' = res.output
           /\ panicked' = res.panicked
           /\ renders' = IF res.panicked THEN 0 ELSE 1
           /\ texture' = IF res.panicked THEN texture ELSE display_tex(res.output)
    /\ op' = "key_t"
    /\ UNCHANGED probe

\* Quit event or key Q: the loop ends
Quit ==
    /\ InLoop /\ ~panicked
    /\ op' = "quit"
    /\ UNCHANGED <<output, triangles, panicked, texture, renders, probe>>

Next == Render \/ DisplayOpen \/ KeyR \/ KeyT \/ Quit

InitRest ==
    /\ panicked = FALSE
    /\ texture = <<>>
    /\ op = "new"
    /\ renders = 0
    /\ probe = NoProbe

\* The scene is the one Scene::new() returned
Init ==
    /\ \E s \in NewScenes : output = s.output /\ triangles = s.triangles
    /\ InitRest

Spec == Init /\ [][Next]_vars

----------------------------------------------------------------------------
(* A scene built with one explicit triangle on a black buffer *)

Red == Vec3(Den, 0, 0)

\* Pixel coordinates of the explicit vertices: below the buffer, in it, and
\* past its end
ExplicitCoords == {0 - 5, 0, 2, 3, N + 1}

ExplicitPoints == { Vec2(AsF64(px), AsF64(py)) : px \in ExplicitCoords, py \in ExplicitCoords }

\* p is not after q in the order by x, then y
LexLeq(p, q) == p.x < q.x \/ (p.x = q.x /\ p.y <= q.y)

\* inside and bounding_box do not change when the vertices are rotated, so
\* the first vertex is taken to be a least one
InitExplicit ==
    /\ \E p0 \in ExplicitPoints, p1 \in ExplicitPoints, p2 \in ExplicitPoints :
           /\ LexLeq(p0, p1) /\ LexLeq(p0, p2)
           /\ triangles = <<Tri2(p0, p1, p2, Red)>>
    /\ output = DEFAULT_OUTPUT
    /\ InitRest

SpecExplicit == InitExplicit /\ [][Next]_vars

----------------------------------------------------------------------------
(* The pure functions of Tri2, called on a triangle of the grid *)

GridPoints == { Vec2(gx, gy) : gx \in 0..Grid, gy \in 0..Grid }

\* triangle.inside(p)
CallInside ==
    /\ probe.fn = "none"
    /\ \E p \in GridPoints :
           probe' = [fn |-> "inside", point |-> p,
                     inside |-> inside(triangles[1], p), box |-> NoProbe.box]
    /\ UNCHANGED <<output, triangles, panicked, texture, op, renders>>

\* triangle.bounding_box()
CallBoundingBox ==
    /\ probe.fn = "none"
    /\ probe' = [fn |-> "bounding_box", point |-> NoProbe.point,
                 inside |-> FALSE, box |-> bounding_box(triangles[1])]
    /\ UNCHANGED <<output, triangles, panicked, texture, op, renders>>

NextGeom == CallInside \/ CallBoundingBox

InitGeom ==
    /\ \E p0 \in GridPoints, p1 \in GridPoints, p2 \in GridPoints :
           triangles = <<Tri2(p0, p1, p2, Red)>>
    /\ output = DEFAULT_OUTPUT
    /\ InitRest

SpecGeom == InitGeom /\ [][NextGeom]_vars

----------------------------------------------------------------------------
(* Geometry the claims are stated in, independent of the code's test *)

Abs(v) == IF v < 0 THEN 0 - v ELSE v

\* Twice the signed area of the triangle a b c
Cross(a, b, c) == (b.x - a.x) * (c.y - a.y) - (b.y - a.y) * (c.x - a.x)

NonDegenerate(t) == Cross(t.points[1], t.points[2], t.points[3]) # 0

\* p lies in the closed triangle: the three sub-triangles add up to its area
InClosed(t, p) ==
    Abs(Cross(t.points[1], t.points[2], p)) + Abs(Cross(t.points[2], t.points[3], p))
        + Abs(Cross(t.points[3], t.points[1], p))
    = Abs(Cross(t.points[1], t.points[2], t.points[3]))

OnBoundary(t, p) ==
    /\ InClosed(t, p)
    /\ \/ Cross(t.points[1], t.points[2], p) = 0
       \/ Cross(t.points[2], t.points[3], p) = 0
       \/ Cross(t.points[3], t.points[1], p) = 0

StrictlyInside(t, p) == InClosed(t, p) /\ ~OnBoundary(t, p)

StrictlyOutside(t, p) == ~InClosed(t, p)

\* The first render() of a scene that was created black has returned
RenderedOnce == op = "render" /\ renders = 1 /\ ~panicked

----------------------------------------------------------------------------
(* C3, C6, C8: the pure functions, under SpecGeom *)

\* C6: for a non-degenerate triangle in either winding, inside() is true of
\* every point strictly inside it and false of every point strictly outside.
C6_InsideStrict ==
    (probe.fn = "inside" /\ NonDegenerate(triangles[1])) =>
        /\ StrictlyInside(triangles[1], probe.point) => probe.inside
        /\ StrictlyOutside(triangles[1], probe.point) => ~probe.inside

\* inside() was called with a point strictly inside a triangle of the winding
\* whose three edge tests are all false, and with a point strictly outside
C6_Witness ==
    /\ probe.fn = "inside"
    /\ Cross(triangles[1].points[1], triangles[1].points[2], triangles[1].points[3]) > 0
    /\ StrictlyInside(triangles[1], probe.point)
    /\ ~point_on_right_line(triangles[1].points[1], triangles[1].points[2], probe.point)
    /\ probe.inside

\* C3: for a non-degenerate triangle in either winding, inside() is true of
\* every point on an edge, vertices included.
C3_BoundaryInside ==
    (probe.fn = "inside" /\ NonDegenerate(triangles[1])
        /\ OnBoundary(triangles[1], probe.point)) => probe.inside

\* C3, the example of the specification: the triangle (0,0),(4,0),(0,4)
\* contains the point (2,0).
C3_Example ==
    (/\ probe.fn = "inside"
     /\ triangles[1].points = <<Vec2(0, 0), Vec2(4, 0), Vec2(0, 4)>>
     /\ probe.point = Vec2(2, 0)) => probe.inside

Perms3 == { <<1, 2, 3>>, <<1, 3, 2>>, <<2, 1, 3>>, <<2, 3, 1>>, <<3, 1, 2>>, <<3, 2, 1>> }

Permuted(t, pm) ==
    [points |-> <<t.points[pm[1]], t.points[pm[2]], t.points[pm[3]]>>, color |-> t.color]

\* C8: bounding_box returns the component-wise minimum and maximum of the
\* three vertices, the same for the six orders of the vertices, with
\* top-left <= bottom-right on both axes and equal corners when the three
\* vertices coincide.
C8_BoundingBox ==
    probe.fn = "bounding_box" =>
        LET t == triangles[1]
            tl == probe.box[1]
            br == probe.box[2]
        IN  /\ \A i \in 1..3 : tl.x <= t.points[i].x /\ tl.y <= t.points[i].y
            /\ \A i \in 1..3 : br.x >= t.points[i].x /\ br.y >= t.points[i].y
            /\ \E i \in 1..3 : tl.x = t.points[i].x
            /\ \E i \in 1..3 : tl.y = t.points[i].y
            /\ \E i \in 1..3 : br.x = t.points[i].x
            /\ \E i \in 1..3 : br.y = t.points[i].y
            /\ \A pm \in Perms3 : bounding_box(Permuted(t, pm)) = probe.box
            /\ tl.x <= br.x /\ tl.y <= br.y
            /\ (t.points[1] = t.points[2] /\ t.points[2] = t.points[3]) => tl = br

\* bounding_box was called on a triangle whose extremes lie at different
\* vertices and whose first vertex holds none of the maxima
C8_Witness ==
    /\ probe.fn = "bounding_box"
    /\ NonDegenerate(triangles[1])
    /\ probe.box[1].x < triangles[1].points[1].x
    /\ probe.box[2].x > triangles[1].points[1].x
    /\ probe.box[2].y > triangles[1].points[1].y
    /\ probe.box[1].y < probe.box[2].y

----------------------------------------------------------------------------
(* C1, C2, C4: one explicit triangle on a black buffer, under SpecExplicit *)

\* The pixel (px, py) lies in the bounding box of t
InBoundingBox(t, px, py) ==
    LET bb == bounding_box(t)
    IN  /\ bb[1].x <= AsF64(px) /\ AsF64(px) <= bb[2].x
        /\ bb[1].y <= AsF64(py) /\ AsF64(py) <= bb[2].y

\* The bounding box of t misses the buffer on some axis
EntirelyOutside(t) ==
    LET bb == bounding_box(t)
    IN  \/ bb[2].x < 0 \/ bb[1].x >= AsF64(N)
        \/ bb[2].y < 0 \/ bb[1].y >= AsF64(N)

\* Every vertex of t is a pixel of the buffer
InBuffer(t) ==
    \A i \in 1..3 :
        /\ 0 <= t.points[i].x /\ t.points[i].x < AsF64(N)
        /\ 0 <= t.points[i].y /\ t.points[i].y < AsF64(N)

\* C1: after render() of a single triangle t onto a black buffer, the cell
\* of pixel (px, py), output[py][px], holds t's colour if and only if the
\* pixel is in t's bounding box and t.inside holds of the point (px, py)
\* itself; every other cell is black.  Stated for the non-degenerate
\* triangles whose vertices are pixels of the buffer, where nothing is clamped.
C1_SingleTriangleFill ==
    (RenderedOnce /\ NonDegenerate(triangles[1]) /\ InBuffer(triangles[1])) =>
        \A px \in Cells, py \in Cells :
            output[py][px] =
                IF /\ InBoundingBox(triangles[1], px, py)
                   /\ inside(triangles[1], Vec2(AsF64(px), AsF64(py)))
                THEN triangles[1].color ELSE Black

\* C2: render() never faults whatever the vertex coordinates, and a triangle
\* whose bounding box lies entirely outside the buffer leaves it unchanged.
\* Stated for the non-degenerate triangles.
C2_RenderNeverFaults ==
    (Len(triangles) = 1 /\ NonDegenerate(triangles[1])) =>
        /\ ~panicked
        /\ (RenderedOnce /\ EntirelyOutside(triangles[1])) => output = DEFAULT_OUTPUT

TriC4 == Tri2(Vec2(0, 0), Vec2(AsF64(3), 0), Vec2(0, AsF64(3)), Red)

\* C4: the triangle (0,0),(3,0),(0,3) in colour (1.0, 0.0, 0.0), rendered
\* once onto a black buffer and exported: exactly the pixels with x + y <= 3
\* are the bytes (255, 0, 0), every other pixel is (0, 0, 0).
C4_EndToEnd ==
    (triangles = <<TriC4>> /\ op = "open" /\ renders = 1) =>
        \A px \in Cells, py \in Cells :
            LET at == 3 * (py * N + px)
            IN  /\ texture[at + 1] = (IF px + py <= 3 THEN 255 ELSE 0)
                /\ texture[at + 2] = 0
                /\ texture[at + 3] = 0

----------------------------------------------------------------------------
(* C5, C9, C10: the scenes of Scene::new() in the key loop, under Spec *)

\* The triangles of the list whose fill loop writes output[r][c]
Painters(r, c) == { i \in 1..Len(triangles) : Covered(triangles[i], r, c) }

Last(set) == CHOOSE i \in set : \A j \in set : j <= i

\* C5: after render(), every cell that some triangle paints holds the colour
\* of the last triangle of the list that paints it.
C5_PaintersOrder ==
    (renders >= 1 /\ ~panicked) =>
        \A r \in Cells, c \in Cells :
            Painters(r, c) # {} => output[r][c] = triangles[Last(Painters(r, c))].color

\* render() has returned and some cell is painted by two triangles of
\* different colours
C5_Witness ==
    /\ renders >= 1 /\ ~panicked
    /\ \E r \in Cells, c \in Cells :
           /\ Painters(r, c) = {1, 2}
           /\ triangles[1].color # triangles[2].color
           /\ output[r][c] = triangles[2].color

\* C9: render() leaves the triangle list as it was, and once render() has
\* returned on a scene a further render() leaves every cell unchanged.
C9_RenderIdempotent ==
    [][(op' \in {"render", "key_r"} /\ ~panicked') =>
           /\ triangles' = triangles
           /\ renders >= 1 => output' = output]_vars

\* render() ran a second time, from the key loop, on a painted buffer
C9_Witness ==
    /\ op = "key_r" /\ renders = 2 /\ ~panicked
    /\ \E r \in Cells, c \in Cells : output[r][c] # Black

\* C10: every scene of Scene::new() has NumTris triangles with vertex
\* coordinates in [0, Projection) and, when it is returned, a black buffer;
\* every range render() slices has 0 <= start <= end <= N, and render()
\* never indexes outside the buffer.
C10_NewSceneInRange ==
    /\ ~panicked
    /\ Len(triangles) = NumTris
    /\ \A i \in 1..Len(triangles) :
           /\ \A j \in 1..3 :
                  /\ 0 <= triangles[i].points[j].x
                  /\ triangles[i].points[j].x < AsF64(Projection)
                  /\ 0 <= triangles[i].points[j].y
                  /\ triangles[i].points[j].y < AsF64(Projection)
           /\ 0 <= RowRange(triangles[i])[1]
           /\ RowRange(triangles[i])[1] <= RowRange(triangles[i])[2]
           /\ RowRange(triangles[i])[2] <= N
           /\ 0 <= ColRange(triangles[i])[1]
           /\ ColRange(triangles[i])[1] <= ColRange(triangles[i])[2]
           /\ ColRange(triangles[i])[2] <= N
    /\ op = "new" => output = DEFAULT_OUTPUT
    /\ op = "key_t" =>
           \A r \in Cells, c \in Cells : Painters(r, c) = {} => output[r][c] = Black

\* A reset replaced a painted scene by a new one and rendered it; one of its
\* triangles reaches the last index below Projection
C10_Witness ==
    /\ op = "key_t" /\ renders = 1 /\ ~panicked
    /\ \E r \in Cells, c \in Cells : output[r][c] # Black
    /\ \E r \in Cells, c \in Cells : output[r][c] = Black
    /\ \E i \in 1..Len(triangles) : RowRange(triangles[i]) = <<0, Projection - 1>>

====
